---- MODULE Spec2Model ----
(***************************************************************************)
(* The xtream2m3u frontend wizard (src/frontend/script.js) as a state      *)
(* machine.  The file holds two revisions of the script: lines 1-456 (with *)
(* the includeVod toggle and content-type sections) and lines 458-779      *)
(* (without them).  The variable rev says which revision the page runs.    *)
(*                                                                         *)
(* Text typed in the credential fields is a sequence of characters, so     *)
(* that String.prototype.trim is computed and not assumed.  Texts that no  *)
(* handler reads back (the selection counter, the labels of the buttons,   *)
(* the caption of the loading indicator) are not part of the state.        *)
(*                                                                         *)
(* The script writes texts into the page with innerHTML and selects        *)
(* elements over the whole document (.category-chip, .category-chip        *)
(* .selected, [data-content-type=...]).  So the elements that the HTML     *)
(* parser makes of a text are part of the state wherever a text is written *)
(* that way: in a chip (the category name), in #results (the message) and  *)
(* in #modalSummary (the url and the username).  An element is a record:   *)
(* chip (it carries class "category-chip"), selected (it carries class     *)
(* "selected") and the data-* attributes it has (categoryId, categoryName, *)
(* contentType).                                                           *)
(*                                                                         *)
(* history is a history switch: when it is TRUE each pending call records  *)
(* the category list and the chips of the moment it was made, so that      *)
(* "as before the fetch was started" can be stated.  No handler reads it.  *)
(***************************************************************************)
EXTENDS Integers, Sequences, FiniteSets, TLC

VARIABLES
  rev,              \* which revision of the script is loaded (1 or 2)
  url,              \* #url.value
  username,         \* #username.value
  password,         \* #password.value
  includeVod,       \* #includeVod.checked
  filterMode,       \* value of input[name=filterMode]:checked
  categories,       \* let categories
  chips,            \* the elements of #categoryChips, in DOM order: each chip, then
                    \* the elements the parser made of its name
  currentStep,      \* let currentStep
  activeStep,       \* the .step element carrying class "active" (0: none)
  loading,          \* #loading is displayed
  results,          \* content of #results
  modalActive,      \* #confirmationModal carries class "active"
  modalSummary,     \* the elements the parser made of the texts of #modalSummary
  downloadLink,     \* #finalDownloadLink: href, download, display
  blobUrls,         \* blobUrls[b]: number of URL.revokeObjectURL calls on blob URL b
  pending,          \* the fetch calls awaiting their response, oldest first
  history,          \* whether each pending call records the list and the chips it started from
  sent              \* the fetch call made by the latest step (endpoint, query), if it made one

vars == <<rev, url, username, password, includeVod, filterMode, categories, chips,
          currentStep, activeStep, loading, results, modalActive, modalSummary,
          downloadLink, blobUrls, pending, history, sent>>

credVars == <<url, username, password>>
chipVars == <<categories, chips>>
stepVars == <<currentStep, activeStep>>
blobVars == <<downloadLink, blobUrls>>

-----------------------------------------------------------------------------
(* Bounds of the model *)

\* fetch calls that may await a response at the same time
MaxPending == 2
\* blob URLs created in one behaviour
MaxBlobs == 2

-----------------------------------------------------------------------------
(* Values *)

\* A JavaScript object is a function from its own property names to their
\* values; a property the object does not have (reading it gives undefined)
\* is a name outside its DOMAIN.  Strings are TLA+ strings, so the string
\* "undefined" is a string like any other.
Has(object, key) == key \in DOMAIN object

\* the falsy strings
Falsy == {""}

\* JavaScript a || b, a and b strings
Or(a, b) == IF a \in Falsy THEN b ELSE a

\* JavaScript object[key] || b, the values strings
PropOr(object, key, b) == IF Has(object, key) THEN Or(object[key], b) ELSE b

\* JavaScript String(object[key]), the values strings: a property the object
\* does not have reads undefined and becomes the string "undefined"
PropString(object, key) == IF Has(object, key) THEN object[key] ELSE "undefined"

Revisions == {1, 2}
FilterModes == {"include", "exclude"}
\* the characters String.prototype.trim strips: ECMAScript WhiteSpace and
\* LineTerminator.  A character is a one-character string; those that cannot
\* be written in a TLA+ string are named by their code point.
Whitespace ==
  { " ", "\t", "\n", "\r", "\f", "U+000B", "U+00A0", "U+FEFF", "U+1680",
    "U+2000", "U+2001", "U+2002", "U+2003", "U+2004", "U+2005", "U+2006",
    "U+2007", "U+2008", "U+2009", "U+200A", "U+2028", "U+2029", "U+202F",
    "U+205F", "U+3000" }

\* Markup.  A text holds markup as a whole: a character of a field, a
\* category name or a message is either free of markup or one of these.
ChipZMarkup == "<i class=\"category-chip selected\" data-category-name=\"Z\"></i>"
ChipMarkup == "<i class=\"category-chip\"></i>"
LiveMarkup == "<i data-content-type=\"live\"></i>"
NamedMarkup == "A<i class=\"category-chip selected\" data-category-name=\"Z\"></i>"

\* the elements the HTML parser makes of them
ChipZElement == [chip |-> TRUE, selected |-> TRUE, categoryName |-> "Z"]
ChipElement == [chip |-> TRUE, selected |-> FALSE]
LiveElement == [chip |-> FALSE, selected |-> FALSE, contentType |-> "live"]

\* innerHTML = s: the elements the parser makes of the string s
parseHTML(s) ==
  IF s \in {ChipZMarkup, NamedMarkup} THEN <<ChipZElement>>
  ELSE IF s = ChipMarkup THEN <<ChipElement>>
  ELSE IF s = LiveMarkup THEN <<LiveElement>>
  ELSE <<>>

\* innerHTML = the strings of text one after the other
RECURSIVE parseText(_)
parseText(text) ==
  IF text = <<>> THEN <<>> ELSE parseHTML(Head(text)) \o parseText(Tail(text))

\* what a user may have typed into the three credential fields
Form(u, n, p) == [url |-> u, username |-> n, password |-> p]
FormInputs ==
  { Form(<<" ", "u", " ">>, <<"n">>, <<"p">>),
    Form(<<"u">>, <<"\t">>, <<"p">>) }

\* the object {}
EmptyObject == [k \in {} |-> ""]

\* bodies of a 200 answer of /categories
Cat(id, name, type) == [category_id |-> id, category_name |-> name, content_type |-> type]
\* a record without content_type
CatUntyped(id, name) == [category_id |-> id, category_name |-> name]
CategoryLists ==
  { <<>>,
    << Cat("20", "Movie X", "vod"), CatUntyped("10", "News") >>,
    << Cat("40", "FM", "radio") >>,
    << Cat("50", "Kids", "constructor"), Cat("10", "News", "live") >> }

\* JSON bodies of a non-2xx answer of /categories
ErrorBodies ==
  { EmptyObject,
    [details |-> "bad credentials"],
    [error |-> "upstream failed"],
    [details |-> "bad credentials", error |-> "upstream failed"],
    [details |-> "", error |-> "upstream failed"] }
\* message of the exception when fetch rejects or the body is not JSON
ThrownMessages == {"Failed to fetch"}
\* text bodies of a non-2xx answer of /m3u
ErrorTexts == {"", "no streams"}

NoHref == 0
NoResults == <<>>
NoFetch == [endpoint |-> "", params |-> <<>>]
EmptyParams == [k \in {} |-> ""]

-----------------------------------------------------------------------------
(* Pure helpers *)

RECURSIVE trimStart(_)
trimStart(s) == IF s # <<>> /\ Head(s) \in Whitespace THEN trimStart(Tail(s)) ELSE s

RECURSIVE trimEnd(_)
trimEnd(s) ==
  IF s # <<>> /\ s[Len(s)] \in Whitespace THEN trimEnd(SubSeq(s, 1, Len(s) - 1)) ELSE s

\* mutant of trim: the text is taken as typed
trimNothing(s) == s

\* String.prototype.trim
trim(s) == trimEnd(trimStart(s))

\* An entry of the array of getSelectedCategories is <<s>> for the string s
\* and <<>> for undefined.
\* Array.prototype.join(","): the names with a "," between neighbours, an
\* undefined entry giving the empty string
RECURSIVE join(_)
join(names) ==
  IF names = <<>> THEN <<>>
  ELSE IF Len(names) = 1 THEN names[1]
  ELSE names[1] \o <<",">> \o join(Tail(names))

\* what showError writes in #results: the class of the alert, the message
\* and the elements the parser makes of the message
showError(message) == <<"alert-error", message, parseText(message)>>

\* what showSuccess writes in #results
successAlert(message) == <<"alert-success", message, parseText(message)>>

\* messages a caller of showSuccess passes
SuccessMessages == {<<"Done">>}

\* the elements of #results
resultsElements(r) == IF r = NoResults THEN <<>> ELSE r[3]

-----------------------------------------------------------------------------
(* Request construction *)

\* loadCategories, first revision: the query of GET /categories
categoriesParams(u, n, p, vod) ==
  [url |-> u, username |-> n, password |-> p]
    @@ (IF vod THEN [include_vod |-> "true"] ELSE EmptyParams)

\* loadCategories, second revision: the includeVod toggle is not read
categoriesParams2(u, n, p, vod) ==
  [url |-> u, username |-> n, password |-> p]

\* getSelectedCategories: data-category-name of the elements es of the
\* document that match .category-chip.selected, in DOM order
getSelectedCategories(es) ==
  LET selectedChips == SelectSeq(es, LAMBDA e : e.chip /\ e.selected)
  IN  [i \in 1..Len(selectedChips) |->
         IF Has(selectedChips[i], "categoryName")
         THEN <<selectedChips[i].categoryName>>
         ELSE <<>>]

\* mutant of groupParams: the two keys are exchanged
groupParamsSwapped(selectedCategories, mode) ==
  IF Len(selectedCategories) > 0
  THEN IF mode = "include"
       THEN [unwanted_groups |-> join(selectedCategories)]
       ELSE [wanted_groups |-> join(selectedCategories)]
  ELSE EmptyParams

\* the wanted_groups / unwanted_groups part of the query of GET /m3u
groupParams(selectedCategories, mode) ==
  IF Len(selectedCategories) > 0
  THEN IF mode = "include"
       THEN [wanted_groups |-> join(selectedCategories)]
       ELSE [unwanted_groups |-> join(selectedCategories)]
  ELSE EmptyParams

\* mutant of m3uParams: nostreamproxy is left out
m3uParamsProxied(u, n, p, vod, selectedCategories, mode) ==
  [url |-> u, username |-> n, password |-> p]
    @@ (IF vod THEN [include_vod |-> "true"] ELSE EmptyParams)
    @@ groupParams(selectedCategories, mode)

\* confirmGeneration, first revision: the query of GET /m3u
m3uParams(u, n, p, vod, selectedCategories, mode) ==
  [url |-> u, username |-> n, password |-> p, nostreamproxy |-> "true"]
    @@ (IF vod THEN [include_vod |-> "true"] ELSE EmptyParams)
    @@ groupParams(selectedCategories, mode)

\* confirmGeneration, second revision: the includeVod toggle is not read
m3uParams2(u, n, p, vod, selectedCategories, mode) ==
  [url |-> u, username |-> n, password |-> p, nostreamproxy |-> "true"]
    @@ groupParams(selectedCategories, mode)

-----------------------------------------------------------------------------
(* Rendering of the category chips *)

\* category.content_type || "live"
contentTypeOf(category) == PropOr(category, "content_type", "live")

\* the names for which groupedCategories[name] is truthy without being one of
\* the three arrays: the properties of Object.prototype
ObjectPrototypeKeys ==
  { "constructor", "hasOwnProperty", "isPrototypeOf", "propertyIsEnumerable",
    "toLocaleString", "toString", "valueOf", "__proto__", "__defineGetter__",
    "__defineSetter__", "__lookupGetter__", "__lookupSetter__" }

\* message of the TypeError of groupedCategories[contentType].push(category)
PushError == "groupedCategories[contentType].push is not a function"

\* the forEach that fills groupedCategories throws: a content type passes the
\* guard of line 69 and has no push
groupingThrows(cats) ==
  \E k \in 1..Len(cats) : contentTypeOf(cats[k]) \in ObjectPrototypeKeys

\* mutant of groupedCategories: unshift in place of push
groupedCategoriesUnshifted(cats) ==
  IF groupingThrows(cats) THEN [threw |-> PushError]
  ELSE [key \in {"live", "vod", "series"} |->
          LET q == SelectSeq(cats, LAMBDA category : contentTypeOf(category) = key)
          IN  [i \in 1..Len(q) |-> q[Len(q) + 1 - i]]]

\* the forEach of displayCategoryChips that fills groupedCategories
groupedCategories(cats) ==
  IF groupingThrows(cats) THEN [threw |-> PushError]
  ELSE [key \in {"live", "vod", "series"} |->
          SelectSeq(cats, LAMBDA category : contentTypeOf(category) = key)]

\* the chip element of a category (lines 101-105); dataset holds strings
makeChip(category) ==
  [chip |-> TRUE,
   categoryId |-> PropString(category, "category_id"),
   categoryName |-> PropString(category, "category_name"),
   contentType |-> contentTypeOf(category),
   selected |-> FALSE]

\* second revision: the chip carries no data-content-type
makeChip2(category) ==
  [chip |-> TRUE,
   categoryId |-> PropString(category, "category_id"),
   categoryName |-> PropString(category, "category_name"),
   selected |-> FALSE]

\* chip.innerHTML = the name in a span (line 108): the elements inside the chip
chipContent(category) == parseHTML(PropString(category, "category_name"))

\* the chips of the categories cats, each followed by its content
RECURSIVE chipsOf(_, _)
chipsOf(r, cats) ==
  IF cats = <<>> THEN <<>>
  ELSE <<IF r = 1 THEN makeChip(Head(cats)) ELSE makeChip2(Head(cats))>>
         \o chipContent(Head(cats)) \o chipsOf(r, Tail(cats))

\* the chips displayCategoryChips leaves in #categoryChips, first revision:
\* one section after the other, each in the order of the list
\* (none when the grouping throws: #categoryChips was emptied at line 58)
sectionChips(cats) ==
  IF groupingThrows(cats) THEN <<>>
  ELSE LET g == groupedCategories(cats)
           shown == g["live"] \o g["vod"] \o g["series"]
       IN  chipsOf(1, shown)

\* displayCategoryChips throws
displayThrows(r, cats) == r = 1 /\ groupingThrows(cats)

\* second revision: one chip per category, in the order of the list
flatChips(cats) == chipsOf(2, cats)

\* mutant of displayCategoryChips: #categoryChips is not emptied first
displayCategoryChipsAppended(r, cats) ==
  chips \o (IF r = 1 THEN sectionChips(cats) ELSE flatChips(cats))

\* displayCategoryChips: the chips of #categoryChips after the call
displayCategoryChips(r, cats) == IF r = 1 THEN sectionChips(cats) ELSE flatChips(cats)

\* the sections that have a header with a select-all button (first revision):
\* those with at least one chip
sectionsShown(cs) ==
  {cs[i].contentType :
     i \in {j \in 1..Len(cs) : Has(cs[j], "categoryId") /\ Has(cs[j], "contentType")}}

-----------------------------------------------------------------------------
(* Initial state: the page as loaded *)

Loaded ==
  /\ url = <<>> /\ username = <<>> /\ password = <<>>
  /\ includeVod = FALSE
  /\ filterMode = "exclude"
  /\ categories = <<>>
  /\ chips = <<>>
  /\ currentStep = 1
  /\ activeStep = 1
  /\ loading = FALSE
  /\ results = NoResults
  /\ modalActive = FALSE
  /\ modalSummary = <<>>
  /\ downloadLink = [href |-> NoHref, download |-> "", display |-> FALSE]
  /\ blobUrls = <<>>
  /\ pending = <<>>
  /\ sent = NoFetch

\* the page runs the first revision
Init == rev = 1 /\ history = FALSE /\ Loaded

\* the page runs either revision
InitRevisions == rev \in Revisions /\ history = FALSE /\ Loaded

\* the page runs the first revision, and each call records where it started
InitHistory == rev = 1 /\ history = TRUE /\ Loaded

-----------------------------------------------------------------------------
(* Handlers of the script *)

\* the category list and the chips at the time a call is made (a history
\* record: no handler reads it)
Snapshot == [categories |-> categories, chips |-> chips]
NoSnapshot == [categories |-> <<>>, chips |-> <<>>]

\* fetch(endpoint?params): the call is recorded and awaits its answer
fetch(endpoint, params) ==
  /\ Len(pending) < MaxPending
  /\ pending' = Append(pending, [endpoint |-> endpoint,
                                  before |-> IF history THEN Snapshot ELSE NoSnapshot])
  /\ sent' = [endpoint |-> endpoint, params |-> params]

\* the pending call at position i is answered
Answered(i) ==
  pending' = SubSeq(pending, 1, i - 1) \o SubSeq(pending, i + 1, Len(pending))

\* loadCategories up to its await of fetch
loadCategories ==
  LET u == trim(url)
      n == trim(username)
      p == trim(password)
      params == IF rev = 1 THEN categoriesParams(u, n, p, includeVod)
                ELSE categoriesParams2(u, n, p, includeVod)
  IN  IF u = <<>> \/ n = <<>> \/ p = <<>>
      THEN /\ results' = showError(<<"Please fill in all required fields">>)
           /\ sent' = NoFetch
           /\ UNCHANGED <<rev, history, modalSummary,
                          credVars, includeVod, filterMode, chipVars, stepVars,
                          loading, modalActive, blobVars, pending>>
      ELSE /\ loading' = TRUE
           /\ activeStep' = 0
           /\ results' = NoResults
           /\ fetch("/categories", params)
           /\ UNCHANGED <<rev, history, modalSummary,
                          credVars, includeVod, filterMode, chipVars, currentStep,
                          modalActive, blobVars>>

\* loadCategories resumed with a 2xx answer carrying the list data
\* (lines 43-45); when displayCategoryChips throws, the catch block follows
loadCategoriesOk(i, data) ==
  /\ pending[i].endpoint = "/categories"
  /\ categories' = data
  /\ chips' = displayCategoryChips(rev, data)
  /\ IF displayThrows(rev, data)
     THEN /\ results' = showError(<<"Failed to load categories: ", PushError>>)
          /\ activeStep' = 1
          /\ currentStep' = 1
     ELSE /\ results' = results
          /\ activeStep' = 2
          /\ currentStep' = 2
  /\ loading' = FALSE
  /\ Answered(i)
  /\ sent' = NoFetch
  /\ UNCHANGED <<rev, history, modalSummary,
                 credVars, includeVod, filterMode, modalActive, blobVars>>

\* mutant of loadCategoriesCatch: the failed call is made again
loadCategoriesCatchRetried(i, message) ==
  /\ pending[i].endpoint = "/categories"
  /\ results' = showError(<<"Failed to load categories: ", message>>)
  /\ pending' = pending
  /\ sent' = [endpoint |-> "/categories",
              params |-> categoriesParams(trim(url), trim(username), trim(password),
                                          includeVod)]
  /\ UNCHANGED <<rev, history, modalSummary, credVars, includeVod, filterMode, chipVars, stepVars,
                 loading, modalActive, blobVars>>

\* the catch and finally blocks of loadCategories
loadCategoriesCatch(i, message) ==
  /\ pending[i].endpoint = "/categories"
  /\ results' = showError(<<"Failed to load categories: ", message>>)
  /\ activeStep' = 1
  /\ currentStep' = 1
  /\ loading' = FALSE
  /\ Answered(i)
  /\ sent' = NoFetch
  /\ UNCHANGED <<rev, history, modalSummary,
                 credVars, includeVod, filterMode, chipVars, modalActive, blobVars>>

\* the message thrown for a non-2xx answer with JSON body data
loadErrorMessage(data) ==
  PropOr(data, "details", PropOr(data, "error", "Failed to load categories"))

\* loadCategories resumed with a non-2xx answer
loadCategoriesNotOk(i, data) == loadCategoriesCatch(i, loadErrorMessage(data))

\* loadCategories resumed by a rejected fetch or a body that is not JSON
loadCategoriesThrown(i, message) == loadCategoriesCatch(i, message)

-----------------------------------------------------------------------------
(* Selection *)

\* The elements of the document that the selectors of the script can match,
\* in document order.  The page markup is not part of the script: #results
\* and #modalSummary follow #categoryChips in it.
documentElements == chips \o resultsElements(results) \o modalSummary

\* the three containers once the elements of the document are those of d
\* (the same elements, their classes changed)
documentWritten(d) ==
  LET a == Len(chips)
      b == a + Len(resultsElements(results))
  IN  /\ chips' = SubSeq(d, 1, a)
      /\ results' = IF results = NoResults THEN results
                    ELSE [results EXCEPT ![3] = SubSeq(d, a + 1, b)]
      /\ modalSummary' = SubSeq(d, b + 1, Len(d))

\* mutant of toggled: classList.add in place of classList.toggle
toggledOn(cs, i) == [cs EXCEPT ![i].selected = TRUE]

\* the chips after classList.toggle("selected") on the chip at position i
toggled(cs, i) == [cs EXCEPT ![i].selected = ~cs[i].selected]

\* toggleChip on the chip at position i
toggleChip(i) ==
  /\ chips' = toggled(chips, i)
  /\ sent' = NoFetch
  /\ UNCHANGED <<rev, history, modalSummary,
                 credVars, includeVod, filterMode, categories, stepVars, loading,
                 results, modalActive, blobVars, pending>>

\* the elements after an all-or-nothing toggle of those at the positions in scope
toggleAll(cs, scope) ==
  LET allSelected == \A i \in scope : cs[i].selected
  IN  [i \in 1..Len(cs) |->
         IF i \in scope THEN [cs[i] EXCEPT !.selected = ~allSelected] ELSE cs[i]]

\* the elements es of the document after a click on the select-all button
\* of a section: the scope is every element matching [data-content-type=section]
sectionToggled(es, section) ==
  toggleAll(es, {i \in 1..Len(es) :
                  Has(es[i], "contentType") /\ es[i].contentType = section})

\* the click listener of the select-all button of a section
sectionSelectAll(section) ==
  /\ documentWritten(sectionToggled(documentElements, section))
  /\ sent' = NoFetch
  /\ UNCHANGED <<rev, history, credVars, includeVod, filterMode, categories, stepVars,
                 loading, modalActive, blobVars, pending>>

\* mutant of cleared: only the first chip loses its class
clearedFirst(es) ==
  [i \in 1..Len(es) |-> IF i = 1 THEN [es[i] EXCEPT !.selected = FALSE] ELSE es[i]]

\* the elements es of the document after clearSelection: those matching
\* .category-chip lose class "selected"
cleared(es) ==
  [i \in 1..Len(es) |-> IF es[i].chip THEN [es[i] EXCEPT !.selected = FALSE] ELSE es[i]]

\* clearSelection
clearSelection ==
  /\ documentWritten(cleared(documentElements))
  /\ sent' = NoFetch
  /\ UNCHANGED <<rev, history, credVars, includeVod, filterMode, categories, stepVars,
                 loading, modalActive, blobVars, pending>>

-----------------------------------------------------------------------------
(* Generation *)

\* the elements of #modalSummary after summary.innerHTML = ... (line 215):
\* of the texts written there only the url and the username are free
summaryElements(u, n) == parseText(u) \o parseText(n)

\* showConfirmation: fills the summary and opens the modal
showConfirmation ==
  /\ modalSummary' = summaryElements(trim(url), trim(username))
  /\ modalActive' = TRUE
  /\ sent' = NoFetch
  /\ UNCHANGED <<rev, history, credVars, includeVod, filterMode, chipVars, stepVars, loading,
                 results, blobVars, pending>>

\* closeModal
closeModal ==
  /\ modalActive' = FALSE
  /\ sent' = NoFetch
  /\ UNCHANGED <<rev, history, modalSummary,
                 credVars, includeVod, filterMode, chipVars, stepVars, loading,
                 results, blobVars, pending>>

\* confirmGeneration up to its await of fetch
confirmGeneration ==
  LET u == trim(url)
      n == trim(username)
      p == trim(password)
      selectedCategories == getSelectedCategories(documentElements)
      params == IF rev = 1
                THEN m3uParams(u, n, p, includeVod, selectedCategories, filterMode)
                ELSE m3uParams2(u, n, p, includeVod, selectedCategories, filterMode)
  IN  /\ modalActive' = FALSE
      /\ activeStep' = 0
      /\ loading' = TRUE
      /\ fetch("/m3u", params)
      /\ UNCHANGED <<rev, history, modalSummary,
                     credVars, includeVod, filterMode, chipVars, currentStep,
                     results, blobVars>>

\* confirmGeneration resumed with a 2xx answer: the blob becomes the download
confirmGenerationOk(i) ==
  /\ pending[i].endpoint = "/m3u"
  /\ Len(blobUrls) < MaxBlobs
  /\ blobUrls' = Append(blobUrls, 0)
  /\ downloadLink' = [href |-> Len(blobUrls) + 1, download |-> "playlist.m3u", display |-> TRUE]
  /\ activeStep' = 3
  /\ currentStep' = 3
  /\ loading' = FALSE
  /\ Answered(i)
  /\ sent' = NoFetch
  /\ UNCHANGED <<rev, history, modalSummary,
                 credVars, includeVod, filterMode, chipVars, results, modalActive>>

\* mutant of confirmGenerationCatch: showStep(2) is left out
confirmGenerationCatchNoStep(i, message) ==
  /\ pending[i].endpoint = "/m3u"
  /\ results' = showError(<<"Failed to generate M3U: ", message>>)
  /\ loading' = FALSE
  /\ Answered(i)
  /\ sent' = NoFetch
  /\ UNCHANGED <<rev, history, modalSummary, credVars, includeVod, filterMode, chipVars, stepVars,
                 modalActive, blobVars>>

\* the catch and finally blocks of confirmGeneration
confirmGenerationCatch(i, message) ==
  /\ pending[i].endpoint = "/m3u"
  /\ results' = showError(<<"Failed to generate M3U: ", message>>)
  /\ activeStep' = 2
  /\ currentStep' = 2
  /\ loading' = FALSE
  /\ Answered(i)
  /\ sent' = NoFetch
  /\ UNCHANGED <<rev, history, modalSummary,
                 credVars, includeVod, filterMode, chipVars, modalActive, blobVars>>

\* mutant of generationErrorMessage: the body of the answer is not used
generationErrorGeneric(errorText) == "Failed to generate M3U playlist"

\* the message thrown for a non-2xx answer with text body errorText
generationErrorMessage(errorText) == Or(errorText, "Failed to generate M3U playlist")

\* confirmGeneration resumed with a non-2xx answer
confirmGenerationNotOk(i, errorText) ==
  confirmGenerationCatch(i, generationErrorMessage(errorText))

\* confirmGeneration resumed by a rejected fetch
confirmGenerationThrown(i, message) == confirmGenerationCatch(i, message)

-----------------------------------------------------------------------------
(* Navigation *)

\* goBackToStep1
goBackToStep1 ==
  /\ activeStep' = 1
  /\ currentStep' = 1
  /\ sent' = NoFetch
  /\ UNCHANGED <<rev, history, modalSummary,
                 credVars, includeVod, filterMode, chipVars, loading, results,
                 modalActive, blobVars, pending>>

\* the download link after the "Clear any download link" block of startOver
clearedLink(link) == [link EXCEPT !.display = FALSE]

\* mutant of clearedCredentials: the fields keep their text
keptCredentials == Form(url, username, password)

\* the credential fields after startOver and useOtherCredentials
clearedCredentials == Form(<<>>, <<>>, <<>>)

\* startOver
startOver ==
  /\ url' = clearedCredentials.url
  /\ username' = clearedCredentials.username
  /\ password' = clearedCredentials.password
  /\ includeVod' = IF rev = 1 THEN FALSE ELSE includeVod
  /\ categories' = <<>>
  /\ chips' = <<>>
  /\ blobUrls' = IF downloadLink.href # NoHref
                 THEN [blobUrls EXCEPT ![downloadLink.href] = @ + 1]
                 ELSE blobUrls
  /\ downloadLink' = clearedLink(downloadLink)
  /\ results' = NoResults
  /\ activeStep' = 1
  /\ currentStep' = 1
  /\ sent' = NoFetch
  /\ UNCHANGED <<rev, history, modalSummary, filterMode, loading, modalActive, pending>>

\* useOtherCredentials
useOtherCredentials ==
  /\ url' = clearedCredentials.url
  /\ username' = clearedCredentials.username
  /\ password' = clearedCredentials.password
  /\ results' = NoResults
  /\ activeStep' = 1
  /\ currentStep' = 1
  /\ sent' = NoFetch
  /\ UNCHANGED <<rev, history, modalSummary, includeVod, filterMode, chipVars, loading, modalActive,
                 blobVars, pending>>

-----------------------------------------------------------------------------
(* Listeners registered at load time *)

\* the blur listener of setupInputTrimming on a credential field
blurTrim(field) ==
  /\ url' = IF field = "url" THEN trim(url) ELSE url
  /\ username' = IF field = "username" THEN trim(username) ELSE username
  /\ password' = IF field = "password" THEN trim(password) ELSE password
  /\ sent' = NoFetch
  /\ UNCHANGED <<rev, history, modalSummary,
                 includeVod, filterMode, chipVars, stepVars, loading, results,
                 modalActive, blobVars, pending>>

\* a key press that no branch of the keydown listener handles
ignored ==
  /\ sent' = NoFetch
  /\ UNCHANGED <<rev, history, modalSummary,
                 credVars, includeVod, filterMode, chipVars, stepVars, loading,
                 results, modalActive, blobVars, pending>>

\* keydown: Escape
keyEscape == closeModal

\* keydown: Ctrl/Cmd+Enter
keyCtrlEnter ==
  IF currentStep = 1 THEN loadCategories
  ELSE IF currentStep = 2 THEN showConfirmation
  ELSE ignored

\* the elements es of the document after the Ctrl/Cmd+A branch of the
\* keydown listener: the scope is every element matching .category-chip
allToggled(es) == toggleAll(es, {i \in 1..Len(es) : es[i].chip})

\* keydown: Ctrl/Cmd+A
keyCtrlA ==
  IF currentStep = 2
  THEN /\ documentWritten(allToggled(documentElements))
       /\ sent' = NoFetch
       /\ UNCHANGED <<rev, history, credVars, includeVod, filterMode, categories, stepVars,
                      loading, modalActive, blobVars, pending>>
  ELSE ignored

-----------------------------------------------------------------------------
(* What the user can reach.  The page markup is not part of the script; the *)
(* controls sit in the step the design gives them: the credential form in   *)
(* step 1, the chips, the filter mode, Back and Use Other Credentials in    *)
(* step 2, Start Over in step 3.  The modal overlays the page while open.   *)

Shown(step) == activeStep = step /\ ~modalActive

Fields == {"url", "username", "password"}

FillForm(form) ==
  /\ Shown(1)
  /\ url' = form.url
  /\ username' = form.username
  /\ password' = form.password
  /\ sent' = NoFetch
  /\ UNCHANGED <<rev, history, modalSummary,
                 includeVod, filterMode, chipVars, stepVars, loading, results,
                 modalActive, blobVars, pending>>

LeaveField(field) == Shown(1) /\ blurTrim(field)

ToggleIncludeVod ==
  /\ Shown(1)
  /\ includeVod' = ~includeVod
  /\ sent' = NoFetch
  /\ UNCHANGED <<rev, history, modalSummary,
                 credVars, filterMode, chipVars, stepVars, loading, results,
                 modalActive, blobVars, pending>>

\* the change listener only refreshes the selection counter
ChangeFilterMode(mode) ==
  /\ Shown(2)
  /\ mode # filterMode
  /\ filterMode' = mode
  /\ sent' = NoFetch
  /\ UNCHANGED <<rev, history, modalSummary,
                 credVars, includeVod, chipVars, stepVars, loading, results,
                 modalActive, blobVars, pending>>

ClickLoadCategories == Shown(1) /\ loadCategories
\* a click on the chip of a category (or inside it: the click bubbles to the chip)
ClickChip(i) == Shown(2) /\ Has(chips[i], "categoryId") /\ toggleChip(i)
ClickSectionSelectAll(section) == Shown(2) /\ sectionSelectAll(section)
ClickClearSelection == Shown(2) /\ clearSelection
ClickGenerate == Shown(2) /\ showConfirmation
ClickBack == Shown(2) /\ goBackToStep1
ClickUseOtherCredentials == Shown(2) /\ useOtherCredentials
ClickStartOver == Shown(3) /\ startOver
ClickConfirm == modalActive /\ confirmGeneration
ClickCancel == modalActive /\ closeModal

UserAction ==
  \/ \E form \in FormInputs : FillForm(form)
  \/ \E field \in Fields : LeaveField(field)
  \/ ToggleIncludeVod
  \/ \E mode \in FilterModes : ChangeFilterMode(mode)
  \/ ClickLoadCategories
  \/ \E i \in 1..Len(chips) : ClickChip(i)
  \/ \E section \in sectionsShown(chips) : ClickSectionSelectAll(section)
  \/ ClickClearSelection
  \/ ClickGenerate
  \/ ClickBack
  \/ ClickUseOtherCredentials
  \/ ClickStartOver
  \/ ClickConfirm
  \/ ClickCancel
  \/ keyEscape
  \/ keyCtrlEnter
  \/ keyCtrlA

\* showSuccess(message): a global function of the script, which the script
\* itself never calls; the page or another script of the page may
showSuccess(message) ==
  /\ results' = successAlert(message)
  /\ sent' = NoFetch
  /\ UNCHANGED <<rev, history, modalSummary, credVars, includeVod, filterMode, categories, chips,
                 currentStep, activeStep, loading, modalActive, blobVars, pending>>

\* a call of a global function from outside the script
PageCall == \E message \in SuccessMessages : showSuccess(message)

\* the transport answers the pending call at position i
ResponseTo(i) ==
  \/ \E data \in CategoryLists : loadCategoriesOk(i, data)
  \/ \E data \in ErrorBodies : loadCategoriesNotOk(i, data)
  \/ \E message \in ThrownMessages : loadCategoriesThrown(i, message)
  \/ confirmGenerationOk(i)
  \/ \E errorText \in ErrorTexts : confirmGenerationNotOk(i, errorText)
  \/ \E message \in ThrownMessages : confirmGenerationThrown(i, message)

\* the transport answers a pending call
Response == \E i \in 1..Len(pending) : ResponseTo(i)

Next == UserAction \/ Response \/ PageCall

Spec == Init /\ [][Next]_vars

SpecRevisions == InitRevisions /\ [][Next]_vars
SpecHistory == InitHistory /\ [][Next]_vars

\* Texts that hold markup: credential fields, a category name, the body of a
\* failed /m3u answer
MarkupForms == { Form(<<"u">>, <<ChipZMarkup>>, <<"p">>) }
MarkupLists == { << Cat("70", NamedMarkup, "live"), Cat("10", "News", "live") >> }
MarkupTexts == { ChipZMarkup }

\* the page used with texts that hold markup, besides those free of it
NextMarkup ==
  \/ Next
  \/ \E form \in MarkupForms : FillForm(form)
  \/ \E i \in 1..Len(pending) : \E data \in MarkupLists : loadCategoriesOk(i, data)
  \/ \E i \in 1..Len(pending) :
       \E errorText \in MarkupTexts : confirmGenerationNotOk(i, errorText)

SpecMarkup == Init /\ [][NextMarkup]_vars

\* the actions that start a call, lead to one or answer one
NextCalls ==
  \/ \E form \in FormInputs : FillForm(form)
  \/ ClickLoadCategories
  \/ ClickGenerate
  \/ ClickConfirm
  \/ ClickCancel
  \/ ClickBack
  \/ ClickUseOtherCredentials
  \/ ClickStartOver
  \/ keyCtrlEnter
  \/ Response

\* the transport answers every call: a pending call does not wait for ever
SpecAnswered == Init /\ [][NextCalls]_vars /\ WF_vars(Response)

-----------------------------------------------------------------------------
(* The selection step on its own: the page after a successful loadCategories *)
(* of a list with several categories per section, and the actions of step 2 *)
(* that make no fetch call.                                                  *)

\* a record without category_name
CatUnnamed(id, type) == [category_id |-> id, content_type |-> type]

\* bodies of a 200 answer of /categories with sections of more than one chip
SectionedLists ==
  { << CatUntyped("10", "News"), Cat("20", "Movie X", "vod"),
       Cat("11", "Sports", "live") >>,
    << Cat("30", "Show Y", "series"), Cat("20", "Movie X", "vod"),
       Cat("31", "Show Z", "series") >>,
    << Cat("20", "Movie X", "vod"), Cat("10", "News", "live"),
       Cat("30", "Show Y", "series"), Cat("21", "Movie W", "vod") >> }

\* user names of the selection step, without markup and with it
SelectingUsernames == { <<"n">>, <<LiveMarkup>>, <<ChipMarkup>> }

\* the state loadCategories leaves when answered with the list data
InitSelecting ==
  /\ rev = 1 /\ history = FALSE
  /\ url = <<"u">> /\ username \in SelectingUsernames /\ password = <<"p">>
  /\ includeVod = FALSE
  /\ filterMode = "exclude"
  /\ \E data \in SectionedLists :
       /\ categories = data
       /\ chips = displayCategoryChips(rev, data)
  /\ currentStep = 2
  /\ activeStep = 2
  /\ loading = FALSE
  /\ results = NoResults
  /\ modalActive = FALSE
  /\ modalSummary = <<>>
  /\ downloadLink = [href |-> NoHref, download |-> "", display |-> FALSE]
  /\ blobUrls = <<>>
  /\ pending = <<>>
  /\ sent = NoFetch

NextSelecting ==
  \/ \E mode \in FilterModes : ChangeFilterMode(mode)
  \/ \E i \in 1..Len(chips) : ClickChip(i)
  \/ \E section \in sectionsShown(chips) : ClickSectionSelectAll(section)
  \/ ClickClearSelection
  \/ ClickGenerate
  \/ ClickCancel
  \/ keyEscape
  \/ keyCtrlA

SpecSelecting == InitSelecting /\ [][NextSelecting]_vars

\* the events of step 2 that lead to a generation, and the answers to it; the
\* keydown listener opens the modal again while a generation is pending
NextGenerating ==
  \/ \E mode \in FilterModes : ChangeFilterMode(mode)
  \/ \E i \in 1..Len(chips) : ClickChip(i)
  \/ ClickGenerate
  \/ ClickConfirm
  \/ ClickCancel
  \/ keyCtrlEnter
  \/ Response
  \/ \E i \in 1..Len(pending) :
       \E errorText \in MarkupTexts : confirmGenerationNotOk(i, errorText)

SpecGenerating == InitSelecting /\ [][NextGenerating]_vars

-----------------------------------------------------------------------------
(* Loading on its own: the page with valid credentials typed, loadCategories *)
(* answered with lists of several categories per section, chips clicked and  *)
(* Back, so that displayCategoryChips runs on the same and on other lists.   *)

GroupingLists ==
  SectionedLists \cup CategoryLists \cup MarkupLists
    \cup { << CatUnnamed("60", "vod"), Cat("10", "News", "live"), EmptyObject >> }

InitGrouping ==
  /\ rev = 1 /\ history = FALSE
  /\ Loaded

NextGrouping ==
  \/ \E form \in FormInputs : FillForm(form)
  \/ ClickLoadCategories
  \/ \E i \in 1..Len(pending) : \E data \in GroupingLists : loadCategoriesOk(i, data)
  \/ \E i \in 1..Len(chips) : ClickChip(i)
  \/ ClickBack

SpecGrouping == InitGrouping /\ [][NextGrouping]_vars

-----------------------------------------------------------------------------
(* Properties.  sent holds the call made by the step that led to the state; *)
(* that step (loadCategories or confirmGeneration) changes neither the      *)
(* fields, the toggles nor the chips, so the state still shows what the     *)
(* request was built from.                                                  *)

\* the chips of categories among the elements cs: those made at lines
\* 101-105, which carry data-category-id
CategoryChips(cs) == {i \in 1..Len(cs) : Has(cs[i], "categoryId")}
\* the selection: the chips of categories that carry class "selected"
SelectedChips == {i \in CategoryChips(chips) : chips[i].selected}
GroupKeys == {"wanted_groups", "unwanted_groups"}
SentKeys == DOMAIN sent.params
SentGroupKeys == SentKeys \cap GroupKeys

\* C1 (as claimed): a /m3u request built while no chip of a category is
\* selected carries neither wanted_groups nor unwanted_groups, whatever the
\* filter mode.
C1_NoGroupKeyWithoutSelection ==
  (sent.endpoint = "/m3u" /\ SelectedChips = {}) => SentGroupKeys = {}

\* C2: a /m3u request built with a selection carries wanted_groups alone in
\* include mode and unwanted_groups alone in exclude mode; no request carries both.
C2_OneGroupKeyByMode ==
  sent.endpoint = "/m3u" =>
    /\ SentGroupKeys # GroupKeys
    /\ SelectedChips # {} =>
         /\ filterMode = "include" => SentGroupKeys = {"wanted_groups"}
         /\ filterMode = "exclude" => SentGroupKeys = {"unwanted_groups"}

C2_Witness ==
  /\ sent.endpoint = "/m3u"
  /\ SelectedChips # {}
  /\ filterMode = "exclude"
  /\ "unwanted_groups" \in SentKeys

\* the category_name the current list gives for a category_id
NameOfId(id) ==
  LET c == CHOOSE c \in {categories[k] : k \in 1..Len(categories)} :
             PropString(c, "category_id") = id
  IN  PropString(c, "category_name")

SentGroupValue ==
  IF "wanted_groups" \in SentKeys THEN sent.params.wanted_groups
  ELSE sent.params.unwanted_groups

\* C3 (as claimed): the value of wanted_groups / unwanted_groups is the
\* category_name of each selected category and nothing else, one entry each,
\* with "," in between.
C3_GroupValueIsSelectedNames ==
  (sent.endpoint = "/m3u" /\ SentGroupKeys # {}) =>
    LET v == SentGroupValue
        n == Cardinality(SelectedChips)
    IN  /\ Len(v) = 2 * n - 1
        /\ \A k \in 1..(n - 1) : v[2 * k] = ","
        /\ {v[2 * k - 1] : k \in 1..n} = {NameOfId(chips[i].categoryId) : i \in SelectedChips}
        /\ Cardinality({v[2 * k - 1] : k \in 1..n}) = n

\* C4 (as claimed): in the /categories and the /m3u request, include_vod is
\* present with value "true" when the includeVod toggle is on, and absent when
\* it is off.
C4_IncludeVodFollowsToggle ==
  sent.endpoint \in {"/categories", "/m3u"} =>
    IF includeVod
    THEN "include_vod" \in SentKeys /\ sent.params.include_vod = "true"
    ELSE "include_vod" \notin SentKeys

IsBlank(s) == \A i \in 1..Len(s) : s[i] \in Whitespace
AnyBlank == IsBlank(url) \/ IsBlank(username) \/ IsBlank(password)
ValidationError == showError(<<"Please fill in all required fields">>)

\* C5: loadCategories with a field that is empty once trimmed makes no fetch
\* call, shows an error, and leaves the steps, the list and the chips as they were.
C5_BlankFieldStopsLoad ==
  [][(loadCategories /\ AnyBlank) =>
       /\ pending' = pending
       /\ sent' = NoFetch
       /\ results' # NoResults /\ results'[1] = "alert-error"
       /\ UNCHANGED <<activeStep, currentStep, categories, chips>>]_vars

C5_Witness ==
  /\ results = ValidationError
  /\ IsBlank(username) /\ username # <<>>
  /\ activeStep = 1
  /\ chips # <<>>
  /\ pending = <<>>

\* C6 (as claimed): a /categories call answered 2xx with a list replaces the
\* category list by the fetched list, leaves no chip selected and each chip
\* that of a category of the list, and ends in step 2.
C6_FetchedListReplacesAndResets ==
  [][\A i \in 1..Len(pending) : \A data \in CategoryLists :
       loadCategoriesOk(i, data) =>
         /\ categories' = data
         /\ \A j \in CategoryChips(chips') : ~chips'[j].selected
         /\ {chips'[j].categoryId : j \in CategoryChips(chips')}
              \subseteq {PropString(data[k], "category_id") : k \in 1..Len(data)}
         /\ activeStep' = 2 /\ currentStep' = 2]_vars

ErrorShown(r) == r # NoResults /\ r[1] = "alert-error"

PreferredLoadError(data) ==
  IF "details" \in DOMAIN data /\ data.details # "" THEN data.details
  ELSE IF "error" \in DOMAIN data /\ data.error # "" THEN data.error
  ELSE "Failed to load categories"

\* C7 (as claimed): a /categories call that fails ends in step 1 with an
\* error shown, the category list and the chips being those of the time the
\* call was started; for a non-2xx answer the message is the body's details,
\* else its error, else a generic text.
C7_FailedFetchRestoresStart ==
  [][\A i \in 1..Len(pending) :
       /\ \A data \in ErrorBodies :
            loadCategoriesNotOk(i, data) =>
              /\ activeStep' = 1 /\ currentStep' = 1
              /\ results' = showError(<<"Failed to load categories: ",
                                        PreferredLoadError(data)>>)
              /\ categories' = pending[i].before.categories
              /\ chips' = pending[i].before.chips
       /\ \A message \in ThrownMessages :
            loadCategoriesThrown(i, message) =>
              /\ activeStep' = 1 /\ currentStep' = 1
              /\ ErrorShown(results')
              /\ categories' = pending[i].before.categories
              /\ chips' = pending[i].before.chips]_vars

\* C8: a /m3u call answered with the playlist shows step 3 with the download
\* link referring to a new blob URL; a /m3u call that fails shows step 2 with
\* an error (the body of the answer if it is not empty, else a generic text);
\* the generation changes neither the category list, the chips nor the filter
\* mode, and a failed one creates no blob URL.
C8_GenerationOutcome ==
  [][/\ confirmGeneration => UNCHANGED <<categories, chips, filterMode, blobVars>>
     /\ \A i \in 1..Len(pending) :
          /\ confirmGenerationOk(i) =>
               /\ activeStep' = 3 /\ currentStep' = 3
               /\ downloadLink'.href \in DOMAIN blobUrls' \ DOMAIN blobUrls
               /\ blobUrls'[downloadLink'.href] = 0
               /\ downloadLink'.display
               /\ UNCHANGED <<categories, chips, filterMode>>
          /\ \A errorText \in ErrorTexts \cup MarkupTexts :
               confirmGenerationNotOk(i, errorText) =>
                 /\ activeStep' = 2 /\ currentStep' = 2
                 /\ results' = showError(<<"Failed to generate M3U: ",
                                           IF errorText # "" THEN errorText
                                           ELSE "Failed to generate M3U playlist">>)
                 /\ UNCHANGED <<categories, chips, filterMode, blobVars>>
          /\ \A message \in ThrownMessages :
               confirmGenerationThrown(i, message) =>
                 /\ activeStep' = 2 /\ currentStep' = 2
                 /\ ErrorShown(results')
                 /\ UNCHANGED <<categories, chips, filterMode, blobVars>>]_vars

C8_Witness ==
  /\ results = showError(<<"Failed to generate M3U: ", "no streams">>)
  /\ activeStep = 2
  /\ SelectedChips # {}
  /\ filterMode = "include"
  /\ downloadLink.href = NoHref
  /\ pending = <<>>

\* C9 (as claimed): startOver ends in step 1 with no category, no chip, empty
\* credential fields, the blob URL of the download link revoked and the link
\* no longer referring to it.
C9_StartOverDropsEverything ==
  [][startOver =>
       /\ activeStep' = 1 /\ currentStep' = 1
       /\ categories' = <<>> /\ chips' = <<>>
       /\ url' = <<>> /\ username' = <<>> /\ password' = <<>>
       /\ downloadLink.href # NoHref => blobUrls'[downloadLink.href] > 0
       /\ downloadLink'.href = NoHref]_vars

\* C10: useOtherCredentials shows step 1 and empties the three credential
\* fields; goBackToStep1 shows step 1 and empties nothing; both leave the
\* category list, the chips, the filter mode and the rest of the wizard's data
\* as they were.
C10_BackKeepsListAndSelection ==
  [][/\ useOtherCredentials =>
          /\ activeStep' = 1 /\ currentStep' = 1
          /\ url' = <<>> /\ username' = <<>> /\ password' = <<>>
          /\ UNCHANGED <<categories, chips, filterMode, includeVod, blobVars,
                         modalActive, loading, pending>>
     /\ goBackToStep1 =>
          /\ activeStep' = 1 /\ currentStep' = 1
          /\ UNCHANGED <<credVars, categories, chips, filterMode, includeVod,
                         blobVars, results, modalActive, loading, pending>>]_vars

C10_Witness ==
  /\ activeStep = 1 /\ currentStep = 1
  /\ url = <<>> /\ username = <<>> /\ password = <<>>
  /\ Len(categories) = 2
  /\ SelectedChips # {}
  /\ filterMode = "include"
  /\ pending = <<>>

Unreleased == {b \in DOMAIN blobUrls : blobUrls[b] = 0}

\* C11 (as claimed): at most one blob URL created by a generation is
\* unrevoked at any time, and no blob URL is revoked more than once.
C11_OneArtifactHeld ==
  /\ Cardinality(Unreleased) <= 1
  /\ \A b \in DOMAIN blobUrls : blobUrls[b] <= 1

\* C12 (as claimed): at most one fetch call awaits its answer at any time.
C12_OneRequestOutstanding == Len(pending) <= 1

\* C13 (as claimed, for a call overtaken by a newer one): the answer to a
\* call that was followed by a newer call, still pending, changes neither the
\* step shown, the category list, the chips nor the download link.
C13_LateResponseIgnored ==
  [][\A i \in 1..(Len(pending) - 1) :
       ResponseTo(i) => UNCHANGED <<activeStep, categories, chips, downloadLink>>]_vars

SectionKeys == {"live", "vod", "series"}
InGroup(g, key, category) == \E j \in 1..Len(g[key]) : g[key][j] = category

\* C14 (as claimed): the grouping of displayCategoryChips puts every category
\* of the fetched list in exactly one of live, vod and series, drops none,
\* whatever its content_type, and puts a record without content_type in live.
C14_GroupingPartitions ==
  LET g == groupedCategories(categories)
  IN  /\ SectionKeys \subseteq DOMAIN g
      /\ \A k \in 1..Len(categories) :
           /\ Cardinality({key \in SectionKeys : InGroup(g, key, categories[k])}) = 1
           /\ "content_type" \notin DOMAIN categories[k] =>
                InGroup(g, "live", categories[k])
      /\ Len(g["live"]) + Len(g["vod"]) + Len(g["series"]) = Len(categories)
      /\ rev = 1 => Cardinality(CategoryChips(chips)) = Len(categories)

CategoryIds == {PropString(categories[k], "category_id") : k \in 1..Len(categories)}

\* C15: at all times every selected chip is the chip of a category of the
\* current category list.
C15_SelectionWithinList ==
  \A i \in SelectedChips : chips[i].categoryId \in CategoryIds

C15_Witness ==
  /\ Cardinality(SelectedChips) = 2
  /\ Len(categories) = 2
  /\ activeStep = 1
  /\ url = <<>>
  /\ results # NoResults

\* t is s without its leading and trailing white space
IsTrimOf(t, s) ==
  \E a \in 1..(Len(s) + 1) : \E b \in 0..Len(s) :
    /\ t = SubSeq(s, a, b)
    /\ \A i \in 1..Len(s) : (i < a \/ i > b) => s[i] \in Whitespace
    /\ t # <<>> => (t[1] \notin Whitespace /\ t[Len(t)] \notin Whitespace)

\* C16: every /m3u call carries url, username and password equal to the
\* trimmed credential fields of the moment of confirmation, and nostreamproxy
\* with value "true".
C16_PlaylistRequestCredentials ==
  sent.endpoint = "/m3u" =>
    /\ {"url", "username", "password", "nostreamproxy"} \subseteq SentKeys
    /\ IsTrimOf(sent.params.url, url)
    /\ IsTrimOf(sent.params.username, username)
    /\ IsTrimOf(sent.params.password, password)
    /\ sent.params.nostreamproxy = "true"

C16_Witness ==
  /\ sent.endpoint = "/m3u"
  /\ url = <<" ", "u", " ">>
  /\ sent.params.url = <<"u">>
  /\ sent.params.nostreamproxy = "true"

InSection(cs, t) == {i \in CategoryChips(cs) : cs[i].contentType = t}

\* C17 (as claimed): the select-all button of section t deselects every chip of the
\* section if all of them are selected at the click, and selects every chip
\* of the section otherwise; the chips of the other sections keep their state.
C17_SectionSelectAll ==
  [][\A t \in sectionsShown(chips) :
       sectionSelectAll(t) =>
         /\ Len(chips') = Len(chips)
         /\ IF \A i \in InSection(chips, t) : chips[i].selected
            THEN \A i \in InSection(chips, t) : ~chips'[i].selected
            ELSE \A i \in InSection(chips, t) : chips'[i].selected
         /\ \A i \in CategoryChips(chips) :
              /\ i \notin InSection(chips, t) => chips'[i] = chips[i]
              /\ chips'[i].categoryId = chips[i].categoryId
              /\ chips'[i].contentType = chips[i].contentType]_vars

AllOrNothing(before, after) ==
  /\ Len(after) = Len(before)
  /\ IF \A i \in CategoryChips(before) : before[i].selected
     THEN \A i \in CategoryChips(before) : ~after[i].selected
     ELSE \A i \in CategoryChips(before) : after[i].selected
  /\ \A i \in CategoryChips(before) :
       /\ after[i].categoryId = before[i].categoryId
       /\ after[i].contentType = before[i].contentType

\* C18 (as claimed): Ctrl/Cmd+A while step 2 is the step shown deselects
\* every chip if all are selected and selects every chip otherwise, whatever
\* their section; while step 2 is not the step shown it changes no chip.
C18_GlobalSelectAll ==
  [][keyCtrlA =>
       IF activeStep = 2 /\ currentStep = 2
       THEN AllOrNothing(chips, chips')
       ELSE chips' = chips]_vars

Selected(cs) == {cs[i].categoryId : i \in {j \in CategoryChips(cs) : cs[j].selected}}

\* C19: one toggleChip changes the membership of that category only, and a
\* second toggleChip on the same chip right after gives back the selection
\* of before the first.
C19_ToggleInvolution ==
  [][\A i \in CategoryChips(chips) :
       toggleChip(i) =>
         /\ Len(chips') = Len(chips)
         /\ chips'[i].selected = ~chips[i].selected
         /\ \A j \in 1..Len(chips) : j # i => chips'[j] = chips[j]
         /\ Selected(chips') =
              IF chips[i].selected
              THEN Selected(chips) \ {chips[i].categoryId}
              ELSE Selected(chips) \cup {chips[i].categoryId}
         /\ Selected(toggled(chips', i)) = Selected(chips)
         /\ toggled(chips', i) = chips]_vars

C19_Witness ==
  /\ Len(chips) = 3
  /\ SelectedChips = {2}
  /\ activeStep = 2
  /\ ~modalActive

\* C20: changing the filter mode leaves the selected chips as they are, and
\* clearSelection leaves no chip selected and the filter mode as it is.
C20_ModeAndSelectionIndependent ==
  [][/\ \A mode \in FilterModes :
          ChangeFilterMode(mode) => (filterMode' = mode /\ chips' = chips)
     /\ clearSelection =>
          /\ Selected(chips') = {}
          /\ Len(chips') = Len(chips)
          /\ filterMode' = filterMode]_vars

C20_Witness ==
  /\ filterMode = "include"
  /\ Len(chips) = 4
  /\ SelectedChips = {}
  /\ activeStep = 2

TypeOf(category) ==
  IF "content_type" \in DOMAIN category /\ category.content_type # ""
  THEN category.content_type
  ELSE "live"
Pos(data, id) == CHOOSE k \in 1..Len(data) : PropString(data[k], "category_id") = id
Unselected(cs) == [i \in 1..Len(cs) |-> [cs[i] EXCEPT !.selected = FALSE]]

\* the chips cs are categories of data, one chip a category at most, each in
\* the section of its type, in the relative order they have in data
GroupsInOrder(cs, data) ==
  /\ \A i \in CategoryChips(cs) :
       /\ \E k \in 1..Len(data) :
            /\ cs[i].categoryId = PropString(data[k], "category_id")
            /\ cs[i].categoryName = PropString(data[k], "category_name")
            /\ cs[i].contentType = TypeOf(data[k])
       /\ \A j \in CategoryChips(cs) : cs[j].categoryId = cs[i].categoryId => j = i
  /\ \A a \in CategoryChips(cs) : \A b \in CategoryChips(cs) :
       (a < b /\ cs[a].contentType = cs[b].contentType) =>
         Pos(data, cs[a].categoryId) < Pos(data, cs[b].categoryId)

\* C21: displayCategoryChips on a fetched list leaves the list as fetched,
\* puts the categories of each group in the order they have in the list, and
\* run again on the list it ran on before yields the same groups.
C21_GroupingDeterministic ==
  [][\A i \in 1..Len(pending) : \A data \in GroupingLists :
       loadCategoriesOk(i, data) =>
         /\ categories' = data
         /\ GroupsInOrder(chips', data)
         /\ categories = data => Unselected(chips') = Unselected(chips)]_vars

C21_Witness ==
  /\ activeStep = 2
  /\ Len(categories) = 4
  /\ categories[1].category_id = "20" /\ categories[4].category_id = "21"
  /\ [i \in 1..Len(chips) |-> chips[i].categoryId] = <<"10", "20", "21", "30">>
  /\ SelectedChips = {}
  /\ sent = NoFetch

\* C22: a step makes at most one fetch call, and the step that resumes a
\* handler with the answer to its call, failed or not, makes none.
C22_NoRetry ==
  [][/\ \A i \in 1..Len(pending) :
          ResponseTo(i) =>
            /\ sent' = NoFetch
            /\ Len(pending') = Len(pending) - 1
     /\ Len(pending') <= Len(pending) + 1
     /\ sent' # NoFetch => Len(pending') = Len(pending) + 1]_vars

C22_Witness ==
  /\ results = showError(<<"Failed to load categories: ", "Failed to fetch">>)
  /\ pending = <<>>
  /\ sent = NoFetch
  /\ activeStep = 1
  /\ ~loading

\* C23 (as claimed): no /m3u call is made with an empty url, username or
\* password.
C23_PlaylistRequestHasCredentials ==
  sent.endpoint = "/m3u" =>
    /\ sent.params.url # <<>>
    /\ sent.params.username # <<>>
    /\ sent.params.password # <<>>

OneStepShown == activeStep \in {1, 2, 3} /\ ~loading

\* C24: when the transport answers every call, a handler that has hidden the
\* steps for its call is followed by a state with the loading indicator
\* hidden and one step active, and whenever no call is pending the loading
\* indicator is hidden and one step is active.
C24_CallsEndWithAStep ==
  /\ [](pending = <<>> => OneStepShown)
  /\ (activeStep = 0) ~> OneStepShown

C24_Witness ==
  /\ pending = <<>>
  /\ activeStep = 3
  /\ ~loading
  /\ downloadLink.display
  /\ results = NoResults

====
